---- MODULE Spec2Model ----
(***************************************************************************)
(* A model of router-js: the Router (route table, middleware list,        *)
(* registration, fetch, _matchRoute, _errorResponse), the RouterResponse   *)
(* builder and the RouterRequest wrapper.                                  *)
(*                                                                         *)
(* JavaScript strings that the code inspects character by character        *)
(* (route patterns, path names) are sequences of one-character strings.    *)
(* JavaScript values are records tagged by a field t.                      *)
(***************************************************************************)
EXTENDS Integers, Sequences, FiniteSets, TLC

VARIABLES routes, middlewares, thrown, calls, mPattern, mPathname, mMatch,
          builder, result, written, raw, read, parse, search, query

vars == <<routes, middlewares, thrown, calls, mPattern, mPathname, mMatch,
          builder, result, written, raw, read, parse, search, query>>

routerVars == <<routes, middlewares, thrown, calls>>

matchVars == <<mPattern, mPathname, mMatch>>

builderVars == <<builder, result, written>>

requestVars == <<raw, read, parse, search, query>>

(***************************************************************************)
(* Bounds of the model.                                                    *)
(***************************************************************************)
MaxRoutes == 2

MaxMiddlewares == 2

MaxPatternTail == 5

MaxPathTail == 3

MaxExcess == 2

MaxInFlight == 2
MaxSearchLength == 4

(***************************************************************************)
(* JavaScript values.                                                      *)
(***************************************************************************)
JsNull == [t |-> "null"]

Undefined == [t |-> "undefined"]

Str(s) == [t |-> "string", v |-> s]

Num(n) == [t |-> "number", v |-> n]

Fn(id) == [t |-> "function", v |-> id]

\* the number n + 1/2, a number that is not an integer
Half(n) == [t |-> "number", v |-> n, half |-> TRUE]

IsInteger(x) == x.t = "number" /\ "half" \notin DOMAIN x

Bool(b) == [t |-> "boolean", v |-> b]

\* an object used as a map from keys to values
Object(map) == [t |-> "object", v |-> map]

\* an array: an object whose own properties are its indices
Array(items) == [t |-> "object", class |-> "Array", v |-> items]

\* what {...x} copies: the own enumerable properties of x
OwnProperties(x) ==
    IF "class" \in DOMAIN x
    THEN [k \in {ToString(i - 1) : i \in DOMAIN x.v} |->
             x.v[CHOOSE i \in DOMAIN x.v : ToString(i - 1) = k]]
    ELSE x.v

\* typeof x
TypeOf(x) == IF x.t = "null" THEN "object" ELSE x.t

\* !x is FALSE exactly for the truthy values
Truthy(x) ==
    CASE x.t = "null" -> FALSE
      [] x.t = "undefined" -> FALSE
      [] x.t = "string" -> Len(x.v) > 0
      [] x.t = "number" -> x.v # 0 \/ ~IsInteger(x)
      [] x.t = "boolean" -> x.v
      [] OTHER -> TRUE

(***************************************************************************)
(* Strings over a small alphabet: the separator, the parameter marker, a   *)
(* letter, and a character that is special in a regular expression.        *)
(***************************************************************************)
Chars == {"/", ":", "a", "."}

RECURSIVE StringsUpTo(_)
StringsUpTo(n) ==
    IF n = 0 THEN {<<>>}
    ELSE LET S == StringsUpTo(n - 1)
         IN S \cup {Append(s, c) : s \in {x \in S : Len(x) = n - 1}, c \in Chars}

Max(S) == CHOOSE x \in S : \A y \in S : y <= x

\* the last index of the longest run of non-"/" characters of s that starts
\* at i (i - 1 when the run is empty): what [^/]+ consumes greedily
RECURSIVE RunEnd(_, _)
RunEnd(s, i) ==
    IF i > Len(s) \/ s[i] = "/" THEN i - 1 ELSE RunEnd(s, i + 1)

(***************************************************************************)
(* Router._matchRoute                                                      *)
(***************************************************************************)
GroupAtom == "([^/]+)"

\* pattern.replace(/:([^/]+)/g, ...) scanned from position i: the names
\* pushed to paramNames, in order
RECURSIVE ParamNamesFrom(_, _)
ParamNamesFrom(p, i) ==
    IF i > Len(p) THEN <<>>
    ELSE IF p[i] = ":" /\ RunEnd(p, i + 1) >= i + 1
         THEN <<SubSeq(p, i + 1, RunEnd(p, i + 1))>>
                  \o ParamNamesFrom(p, RunEnd(p, i + 1) + 1)
         ELSE ParamNamesFrom(p, i + 1)

paramNames(p) == ParamNamesFrom(p, 1)

\* the string the replace returns, as a sequence of regular-expression
\* atoms: every ":name" becomes the group, every other character stays
RECURSIVE RegexPatternFrom(_, _)
RegexPatternFrom(p, i) ==
    IF i > Len(p) THEN <<>>
    ELSE IF p[i] = ":" /\ RunEnd(p, i + 1) >= i + 1
         THEN <<GroupAtom>> \o RegexPatternFrom(p, RunEnd(p, i + 1) + 1)
         ELSE <<p[i]>> \o RegexPatternFrom(p, i + 1)

regexPattern(p) == RegexPatternFrom(p, 1)

\* pathname.match(new RegExp('^' + regexPattern + '$')): the atoms are not
\* escaped, so "." is the regular expression's any-character; a group is
\* greedy and backtracks
RECURSIVE RegexMatch(_, _)
RegexMatch(r, s) ==
    IF r = <<>>
    THEN IF s = <<>> THEN [ok |-> TRUE, caps |-> <<>>] ELSE [ok |-> FALSE]
    ELSE IF Head(r) = GroupAtom
         THEN LET fits == {k \in 1..RunEnd(s, 1) :
                              RegexMatch(Tail(r), SubSeq(s, k + 1, Len(s))).ok}
              IN IF fits = {} THEN [ok |-> FALSE]
                 ELSE LET k == Max(fits)
                          rest == RegexMatch(Tail(r), SubSeq(s, k + 1, Len(s)))
                      IN [ok |-> TRUE, caps |-> <<SubSeq(s, 1, k)>> \o rest.caps]
         ELSE IF s # <<>> /\ (Head(r) = "." \/ Head(r) = Head(s))
              THEN RegexMatch(Tail(r), Tail(s))
              ELSE [ok |-> FALSE]

\* params[paramNames[i]] = match[i + 1] for i = 0, 1, ...: a later
\* assignment to the same name overwrites an earlier one
ExtractParams(names, caps) ==
    [n \in {names[i] : i \in DOMAIN names} |->
        caps[Max({i \in DOMAIN names : names[i] = n})]]

MatchRoute(pattern, pathname) ==
    LET m == RegexMatch(regexPattern(pattern), pathname)
    IN IF ~m.ok THEN JsNull
       ELSE [t |-> "object", params |-> ExtractParams(paramNames(pattern), m.caps)]

(***************************************************************************)
(* The matcher applied to every pattern and path of bounded length.        *)
(***************************************************************************)
Patterns == {<<"/">> \o s : s \in StringsUpTo(MaxPatternTail)}

Pathnames == {<<"/">> \o s : s \in StringsUpTo(MaxPathTail)}

NotRun == [t |-> "pending"]

MatchInit ==
    /\ mPattern \in Patterns
    /\ mPathname \in Pathnames
    /\ mMatch = NotRun

ApplyMatchRoute ==
    /\ mMatch = NotRun
    /\ mMatch' = MatchRoute(mPattern, mPathname)
    /\ UNCHANGED <<mPattern, mPathname>>

(***************************************************************************)
(* JavaScript strings that are only compared or concatenated are           *)
(* sequences of chunks; the empty string is the empty sequence.            *)
(***************************************************************************)
Text(chunk) == Str(<<chunk>>)

EmptyString == Str(<<>>)

\* new Error(message)
Error(message) == [t |-> "Error", message |-> message]

NoError == [t |-> "none"]

(***************************************************************************)
(* Router: constructor, use, _addRoute, get ... options                    *)
(***************************************************************************)
RouterInit ==
    /\ routes = <<>>
    /\ middlewares = <<>>

\* what use(middleware) throws
UseError(middleware) ==
    IF TypeOf(middleware) # "function"
    THEN Error(Text("Middleware must be a function."))
    ELSE NoError

\* the duplicate check compares the patterns only
AddRouteErrorAnyMethod(method, url, callback) ==
    IF ~Truthy(url) \/ ~Truthy(callback)
    THEN Error(Text("URL or Callback is not provided."))
    ELSE IF TypeOf(url) # "string"
    THEN Error(Text("URL must be of type string."))
    ELSE IF TypeOf(callback) # "function"
    THEN Error(Text("Callback must be of type function."))
    ELSE IF \E i \in DOMAIN routes : routes[i].url = url
    THEN Error(Str(<<"Route already exists for ", method, " ">> \o url.v \o <<".">>))
    ELSE NoError

\* what _addRoute(method, url, callback) throws
AddRouteError(method, url, callback) ==
    IF ~Truthy(url) \/ ~Truthy(callback)
    THEN Error(Text("URL or Callback is not provided."))
    ELSE IF TypeOf(url) # "string"
    THEN Error(Text("URL must be of type string."))
    ELSE IF TypeOf(callback) # "function"
    THEN Error(Text("Callback must be of type function."))
    ELSE IF \E i \in DOMAIN routes : routes[i].url = url /\ routes[i].method = method
    THEN Error(Str(<<"Route already exists for ", method, " ">> \o url.v \o <<".">>))
    ELSE NoError

\* the route is put in front of the table
UnshiftRoute(method, url, callback) ==
    <<[url |-> url, callback |-> callback, method |-> method]>> \o routes

\* this.routes.push({url, callback, method})
PushRoute(method, url, callback) ==
    Append(routes, [url |-> url, callback |-> callback, method |-> method])

(***************************************************************************)
(* The transport's Response and the RouterResponse builder                 *)
(***************************************************************************)
\* new Response(body, {status, statusText, headers})
Response(body, status, statusText, headers) ==
    [t |-> "Response", status |-> status, statusText |-> statusText,
     headers |-> headers, body |-> body]

\* x instanceof Response
InstanceOfResponse(x) == x.t = "Response"

\* JSON.stringify of an object: the document, key by key
JSONStringify(object) == [json |-> object]

\* new RouterResponse()
NewRouterResponse ==
    [header |-> ("Access-Control-Allow-Origin" :> "*")
                @@ ("Server" :> "Cloudflare Worker")
                @@ ("Access-Control-Allow-Headers" :> "*")
                @@ ("Access-Control-Allow-Methods" :> "GET, POST, PUT, DELETE, PATCH, OPTIONS"),
     status |-> Num(200),
     statusText |-> "OK"]

\* the conversion of the status given to new Response to an unsigned short:
\* the fraction is dropped
ToUnsignedShort(status) == status.v

\* this.status || 200
StatusOr200(res) == ToUnsignedShort(IF Truthy(res.status) THEN res.status ELSE Num(200))

\* this.statusText || "OK"
StatusTextOrOK(res) == IF res.statusText # "" THEN res.statusText ELSE "OK"

\* res.json(body) for a serializable body
Json(res, body) ==
    Response(JSONStringify(body), StatusOr200(res), StatusTextOrOK(res),
             ("Content-Type" :> "application/json") @@ res.header)

\* res.json(body, extra): json declares the one parameter body, an argument
\* after it is bound to nothing
JsonWithExtra(res, body, extra) == Json(res, body)

\* what res.json(body) throws: undefined is refused, and the catch wraps the
\* failure
JsonError(body) ==
    IF body = Undefined
    THEN Error(Str(<<"Failed to serialize response to JSON: ",
                     "Cannot serialize undefined to JSON">>))
    ELSE NoError

\* String(body)
String(body) ==
    CASE body.t = "string" -> body
      [] body.t = "number" -> Text(ToString(body.v))
      [] OTHER -> Text(body.t)

\* body === null || body === undefined ? '' : String(body)
TextBody(body) == IF body.t \in {"null", "undefined"} THEN EmptyString ELSE String(body)

\* res.text(body)
PlainText(res, body) ==
    Response(TextBody(body), StatusOr200(res), StatusTextOrOK(res),
             ("Content-Type" :> "text/plain") @@ res.header)

\* res.html(body)
Html(res, body) ==
    Response(TextBody(body), StatusOr200(res), StatusTextOrOK(res),
             ("Content-Type" :> "text/html") @@ res.header)

DefaultMethods == "GET, POST, PUT, DELETE, PATCH, OPTIONS"

\* const { key = default } = options
Option(options, key, default) ==
    IF key \in DOMAIN options THEN options[key] ELSE default

\* res.cors(options): the builder afterwards
Cors(res, options) ==
    LET set == ("Access-Control-Allow-Origin" :> Option(options, "origin", "*"))
               @@ ("Access-Control-Allow-Methods" :> Option(options, "methods", DefaultMethods))
               @@ ("Access-Control-Allow-Headers" :> Option(options, "headers", "*"))
               @@ res.header
    IN [res EXCEPT !.header =
            IF Truthy(Option(options, "credentials", Bool(FALSE)))
            THEN ("Access-Control-Allow-Credentials" :> "true") @@ set
            ELSE set]

\* x < k and x > k for a number x and an integer k
LessThan(x, k) == x.v < k

GreaterThan(x, k) == IF IsInteger(x) THEN x.v > k ELSE x.v >= k

\* what res.writeHead(status, statusText, headers) throws
WriteHeadError(status, statusText, headers) ==
    IF TypeOf(status) # "number" \/ LessThan(status, 100) \/ GreaterThan(status, 599)
    THEN Error(Text("Status must be a number between 100 and 599"))
    ELSE IF Truthy(statusText) /\ TypeOf(statusText) # "string"
    THEN Error(Text("Status text must be a string"))
    ELSE IF Truthy(headers) /\ TypeOf(headers) # "object"
    THEN Error(Text("Headers must be an object"))
    ELSE NoError

\* a writeHead without a status text keeps the one the builder has
WriteHeadKeepText(res, status, statusText, headers) ==
    [status |-> status,
     statusText |-> IF Truthy(statusText) THEN statusText.v[1] ELSE res.statusText,
     header |-> IF Truthy(headers) THEN OwnProperties(headers) @@ res.header
                ELSE res.header]

\* the builder after a writeHead that did not throw; a status text is one
\* chunk
WriteHead(res, status, statusText, headers) ==
    [status |-> status,
     statusText |-> IF Truthy(statusText) THEN statusText.v[1] ELSE "",
     header |-> IF Truthy(headers) THEN OwnProperties(headers) @@ res.header
                ELSE res.header]

(***************************************************************************)
(* Router._errorResponse                                                   *)
(***************************************************************************)
ErrorResponse(status, statusText, message) ==
    LET detail == IF message.t = "undefined" THEN JsNull ELSE message
        body == IF Truthy(detail)
                THEN [error |-> statusText, status |-> status, message |-> detail]
                ELSE [error |-> statusText, status |-> status]
    IN Response(JSONStringify(body), status, statusText,
                ("Content-Type" :> "application/json")
                @@ ("Access-Control-Allow-Origin" :> "*"))

(***************************************************************************)
(* The raw request, new URL(request.url) and new RouterRequest(request)    *)
(***************************************************************************)
Origin == "https://example.com"

\* whether new URL(url) succeeds: the string begins with a scheme and host
URLParses(url) == Len(url.v) > 0 /\ Head(url.v) = Origin

\* the raw request is present and its url is a string that parses
WellFormed(request) ==
    Truthy(request) /\ TypeOf(request.url) = "string" /\ URLParses(request.url)

\* new URL(url).pathname: what follows the origin, "/" when nothing does
URLPathname(url) == IF Tail(url.v) = <<>> THEN <<"/">> ELSE Tail(url.v)

\* new RouterRequest(request): the constructor assigns method (and client,
\* url, headers, body, request, query) and no params, so that reading
\* req.params gives undefined until fetch assigns it
NewRouterRequest(request) ==
    [method |-> request.method, params |-> Undefined]

(***************************************************************************)
(* Router.fetch                                                            *)
(*                                                                         *)
(* A call of fetch is a record: pc is where it is suspended ("idle" before *)
(* the call, "middleware" or "handler" at the await of middleware i or of  *)
(* the callback of route i, "done" once it has settled), outcome is how    *)
(* its promise settled, log is the history of the calls fetch made and of  *)
(* how each ended.                                                         *)
(***************************************************************************)
Return(value) == [kind |-> "return", value |-> value]

Throw(error) == [kind |-> "throw", value |-> error]

Pending == [kind |-> "pending"]

IdleCall ==
    [pc |-> "idle", request |-> JsNull, pathname |-> <<>>,
     req |-> JsNull, res |-> JsNull, i |-> 0, log |-> <<>>, outcome |-> Pending]

Called(who, i, fn) == [who |-> who, i |-> i, fn |-> fn, ev |-> "call"]

Returned(who, i, value) == [who |-> who, i |-> i, ev |-> "return", value |-> value]

\* a middleware ended without a response: the loop goes on
Passed(who, i) == [who |-> who, i |-> i, ev |-> "next"]

Threw(who, i, error) == [who |-> who, i |-> i, ev |-> "throw", value |-> error]

Logged(call, event) == [call EXCEPT !.log = Append(@, event)]

Settled(call, outcome) == [call EXCEPT !.pc = "done", !.outcome = outcome]

\* fetch without its outer catch: the failure leaves fetch
FetchCatchRethrows == Throw(Error(Text("Failed to process request")))

\* the outer catch of fetch
FetchCatch ==
    Return(ErrorResponse(500, "Internal Server Error", Text("Failed to process request")))

\* reading error.message throws a TypeError when error is null or undefined
HasMessage(error) == error.t \notin {"null", "undefined"}

MessageOf(error) == IF error.t = "Error" THEN error.message ELSE Undefined

\* catch (error) around the await of a middleware
MiddlewareCatch(error) ==
    IF HasMessage(error)
    THEN Return(ErrorResponse(500, "Middleware Error", MessageOf(error)))
    ELSE FetchCatch

\* catch (error) around the await of the route callback
CallbackCatch(error) ==
    IF HasMessage(error)
    THEN Return(ErrorResponse(500, "Internal Server Error", MessageOf(error)))
    ELSE FetchCatch

\* the scan keeps the last route that matches instead of stopping at the first
MatchedRouteLast(method, pathname) ==
    LET hits == {r \in DOMAIN routes :
                    /\ MatchRoute(routes[r].url.v, pathname).t # "null"
                    /\ routes[r].method = method}
    IN IF hits = {} THEN 0 ELSE CHOOSE r \in hits : \A q \in hits : r >= q

\* the scan does not compare the methods
MatchedRouteAnyMethod(method, pathname) ==
    LET hits == {r \in DOMAIN routes :
                    MatchRoute(routes[r].url.v, pathname).t # "null"}
    IN IF hits = {} THEN 0 ELSE CHOOSE r \in hits : \A q \in hits : r <= q

\* the position of the route the scan stops at, 0 when it reaches the end
MatchedRoute(method, pathname) ==
    LET hits == {r \in DOMAIN routes :
                    /\ MatchRoute(routes[r].url.v, pathname).t # "null"
                    /\ routes[r].method = method}
    IN IF hits = {} THEN 0 ELSE CHOOSE r \in hits : \A q \in hits : r <= q

NotFound(call) ==
    Return(ErrorResponse(404, "Not Found",
               Str(<<"Route ", call.request.method, " ">> \o call.pathname
                   \o <<" not found">>)))

\* the handler is given a wrapper and a builder of its own
ScanRoutesFresh(call, sync) ==
    LET r == MatchedRoute(call.request.method, call.pathname)
        matched == Logged([call EXCEPT !.req = [NewRouterRequest(call.request) EXCEPT !.params =
                               Object(MatchRoute(routes[r].url.v, call.pathname).params)],
                                   !.res = NewRouterResponse],
                          Called("handler", r, routes[r].callback))
    IN IF r = 0 THEN Settled(call, NotFound(call))
       ELSE IF sync.kind = "throw"
       THEN Settled(Logged(matched, Threw("handler", r, sync.value)),
                    CallbackCatch(sync.value))
       ELSE [matched EXCEPT !.pc = "handler", !.i = r]

\* for (let route of this.routes) ...: up to the await of the callback, which
\* has thrown synchronously (sync is a Throw) or returned something to await
ScanRoutes(call, sync) ==
    LET r == MatchedRoute(call.request.method, call.pathname)
        matched == Logged([call EXCEPT !.req.params =
                               Object(MatchRoute(routes[r].url.v, call.pathname).params)],
                          Called("handler", r, routes[r].callback))
    IN IF r = 0 THEN Settled(call, NotFound(call))
       ELSE IF sync.kind = "throw"
       THEN Settled(Logged(matched, Threw("handler", r, sync.value)),
                    CallbackCatch(sync.value))
       ELSE [matched EXCEPT !.pc = "handler", !.i = r]

\* the loop without its await: every middleware is called at once and the
\* route scan follows without waiting for any of them
RECURSIVE RunMiddlewaresNoAwait(_, _, _)
RunMiddlewaresNoAwait(call, i, sync) ==
    IF i > Len(middlewares) THEN ScanRoutes(call, sync)
    ELSE RunMiddlewaresNoAwait(Logged(call, Called("middleware", i, middlewares[i])),
                               i + 1, sync)

\* for (let middleware of this.middlewares) ... from position i: up to the
\* next await, then the route scan when the list is exhausted
RunMiddlewares(call, i, sync) ==
    IF i > Len(middlewares) THEN ScanRoutes(call, sync)
    ELSE LET started == Logged(call, Called("middleware", i, middlewares[i]))
         IN IF sync.kind = "throw"
            THEN Settled(Logged(started, Threw("middleware", i, sync.value)),
                         MiddlewareCatch(sync.value))
            ELSE [started EXCEPT !.pc = "middleware", !.i = i]

\* fetch without its validation of the request: reading the url of an absent
\* request, or parsing a url that is no string, throws into the outer catch
FetchBeginUnvalidated(request, sync) ==
    LET call == [IdleCall EXCEPT !.request = request]
    IN IF ~Truthy(request) \/ TypeOf(request.url) # "string"
       THEN Settled(call, FetchCatch)
       ELSE IF ~URLParses(request.url)
       THEN Settled(call, FetchCatch)
       ELSE RunMiddlewares([call EXCEPT !.pathname = URLPathname(request.url),
                                        !.req = NewRouterRequest(request),
                                        !.res = NewRouterResponse],
                           1, sync)

\* fetch(request, env, ctx) up to its first await or its return
FetchBegin(request, sync) ==
    LET call == [IdleCall EXCEPT !.request = request]
    IN IF ~Truthy(request) \/ TypeOf(request.url) # "string"
       THEN Settled(call, Return(ErrorResponse(400, "Invalid request object", JsNull)))
       ELSE IF ~URLParses(request.url)
       THEN Settled(call, FetchCatch)
       ELSE RunMiddlewares([call EXCEPT !.pathname = URLPathname(request.url),
                                        !.req = NewRouterRequest(request),
                                        !.res = NewRouterResponse],
                           1, sync)

\* the loop ignores what the middleware returned
MiddlewareResolvedIgnored(call, value, sync) ==
    IF InstanceOfResponse(value)
    THEN RunMiddlewares(Logged(call, Returned("middleware", call.i, value)),
                        call.i + 1, sync)
    ELSE RunMiddlewares(Logged(call, Passed("middleware", call.i)), call.i + 1, sync)

\* fetch resumed with the value the awaited middleware resolved to
MiddlewareResolved(call, value, sync) ==
    IF InstanceOfResponse(value)
    THEN Settled(Logged(call, Returned("middleware", call.i, value)), Return(value))
    ELSE RunMiddlewares(Logged(call, Passed("middleware", call.i)), call.i + 1, sync)

\* fetch resumed with the failure the awaited middleware rejected with
MiddlewareRejected(call, error) ==
    Settled(Logged(call, Threw("middleware", call.i, error)), MiddlewareCatch(error))

\* return await route.callback(...): the value it resolved to
CallbackResolved(call, value) ==
    Settled(Logged(call, Returned("handler", call.i, value)), Return(value))

CallbackRejected(call, error) ==
    Settled(Logged(call, Threw("handler", call.i, error)), CallbackCatch(error))

(***************************************************************************)
(* The arguments the operations are called with.                           *)
(***************************************************************************)
RoutePatterns == {<<"/", "a">>, <<"/", ":", "a">>}

UrlArguments == {Str(p) : p \in RoutePatterns} \cup {JsNull, Num(123), Num(0)}

\* put, delete, patch and options, which no modelled request uses, are given
\* the literal pattern only
LiteralUrlArguments == {Str(<<"/", "a">>), JsNull, Num(123), Num(0)}

CallbackArguments == {Fn("h1"), JsNull, Text("not a function"), Num(0)}

MiddlewareArguments == {Fn("m1"), Text("not a function"), JsNull}

RequestPaths == {<<>>, <<"/", "a">>, <<"/", ".">>}

Request(method, path) == [t |-> "object", url |-> Str(<<Origin>> \o path), method |-> method]

\* absent, url not a string, url not parseable, well-formed
Requests ==
    {JsNull,
     [t |-> "object", url |-> Num(1), method |-> "GET"],
     [t |-> "object", url |-> Text("not a url"), method |-> "GET"]}
    \cup {Request("GET", p) : p \in RequestPaths}
    \cup {Request("POST", <<"/", "a">>)}

\* what a middleware or a handler may throw or reject with: null, a string,
\* an Error with an empty message, an Error with a message
Failures == {JsNull, Text("oops"), Error(EmptyString), Error(Text("boom"))}

\* a call either throws synchronously or returns something fetch awaits
SyncOutcomes == {Pending} \cup {Throw(f) : f \in Failures}

\* what a middleware may resolve to: nothing, a value that is no Response,
\* a response materialized from the builder, a response of its own
MiddlewareValues(call) ==
    {Undefined, Text("ok"),
     JsonWithExtra(call.res, [error |-> "Unauthorized"], Num(401)),
     Response(Text("denied"), 401, "Unauthorized", <<>>)}

\* what a handler may resolve to
CallbackValues(call) ==
    {Json(call.res, [message |-> "Request recieved"]), Undefined, Text("hello")}

(***************************************************************************)
(* The RouterResponse builder on its own: builder is the object, result    *)
(* is the last method called on it and how the call ended, written is the  *)
(* status and status text given to the last writeHead that succeeded.      *)
(***************************************************************************)
\* return this
This == [t |-> "this"]

BuilderInit ==
    /\ builder = NewRouterResponse
    /\ result = NotRun
    /\ written = NotRun

Ended(op, outcome) == [op |-> op, outcome |-> outcome]

CorsOptions ==
    {<<>>,
     [origin |-> "https://x.com"],
     [credentials |-> Bool(TRUE)],
     [credentials |-> Bool(FALSE)],
     [origin |-> "https://x.com", credentials |-> Bool(TRUE)],
     [methods |-> "GET", headers |-> "X-Token"]}

StatusArguments ==
    {Num(201), Num(100), Num(599), Num(99), Num(600), Num(999), Half(200),
     Text("bad"), Undefined}

StatusTextArguments == {Undefined, Text("Created"), EmptyString, Num(5)}

HeadersArguments ==
    {Undefined, Object("X-Custom" :> "1"), Array(<<"a">>), Text("bad")}

JsonBodies == {[ok |-> TRUE], Undefined}

TextBodies == {Text("hello"), JsNull, Num(5)}

\* the status text given to the writeHead before the last one
Earlier(last) == IF last = NotRun THEN NotRun ELSE last.statusText

res_cors(options) ==
    /\ builder' = Cors(builder, options)
    /\ result' = Ended("cors", Return(This))
    /\ UNCHANGED written

\* the status is stored as soon as it has passed its own validation
res_writeHeadStatusFirst(status, statusText, headers) ==
    IF WriteHeadError(status, statusText, headers) # NoError
    THEN /\ result' = Ended("writeHead", Throw(WriteHeadError(status, statusText, headers)))
         /\ builder' = IF WriteHeadError(status, Undefined, Undefined) = NoError
                       THEN [builder EXCEPT !.status = status]
                       ELSE builder
         /\ UNCHANGED written
    ELSE /\ builder' = WriteHead(builder, status, statusText, headers)
         /\ result' = Ended("writeHead", Return(Undefined))
         /\ written' = [status |-> status, statusText |-> statusText,
                        previous |-> Earlier(written)]

res_writeHead(status, statusText, headers) ==
    IF WriteHeadError(status, statusText, headers) # NoError
    THEN /\ result' = Ended("writeHead", Throw(WriteHeadError(status, statusText, headers)))
         /\ UNCHANGED <<builder, written>>
    ELSE /\ builder' = WriteHead(builder, status, statusText, headers)
         /\ result' = Ended("writeHead", Return(Undefined))
         /\ written' = [status |-> status, statusText |-> statusText,
                        previous |-> Earlier(written)]

res_json(body) ==
    /\ result' = Ended("json", IF JsonError(body) # NoError
                               THEN Throw(JsonError(body))
                               ELSE Return(Json(builder, body)))
    /\ UNCHANGED <<builder, written>>

res_text(body) ==
    /\ result' = Ended("text", Return(PlainText(builder, body)))
    /\ UNCHANGED <<builder, written>>

res_html(body) ==
    /\ result' = Ended("html", Return(Html(builder, body)))
    /\ UNCHANGED <<builder, written>>

cors == \E options \in CorsOptions : res_cors(options)

writeHead ==
    \E status \in StatusArguments, statusText \in StatusTextArguments,
       headers \in HeadersArguments : res_writeHead(status, statusText, headers)

json == \E body \in JsonBodies : res_json(body)

text == \E body \in TextBodies : res_text(body)

html == \E body \in TextBodies : res_html(body)

(***************************************************************************)
(* RouterRequest.text on its own: raw is what the transport request's      *)
(* text() will do (resolve to a text or reject), read is the call of the   *)
(* accessor.  A body text is known by what it holds and by its length.     *)
(***************************************************************************)
\* 1024 * 1024
MaxBodyLength == 1024 * 1024

BodyText(holds, length) == [t |-> "string", v |-> <<holds>>, length |-> length]

\* a TypeError the runtime throws
TypeError(message) == [t |-> "Error", name |-> "TypeError", message |-> message]

\* 'prefix' + x
Concat(prefix, x) ==
    IF x.t = "string" THEN Str(<<prefix>> \o x.v) ELSE Str(<<prefix, x.t>>)

\* the catch of text(): the failure is raised again as a failure to parse;
\* reading the message of null throws a TypeError instead
TextCatch(error) ==
    IF HasMessage(error)
    THEN Error(Concat("Failed to parse request body as text: ", MessageOf(error)))
    ELSE TypeError(Text("Cannot read properties of null (reading 'message')"))

\* text() resumed with the text the transport resolved to: the throw of the
\* size check is inside the try and is caught by the same catch
TextResolved(decoded) ==
    IF decoded.length > MaxBodyLength
    THEN Throw(TextCatch(Error(Text("Request body too large (max 1MB)"))))
    ELSE Return(decoded)

\* text() resumed with the failure the transport rejected with
TextRejected(error) == Throw(TextCatch(error))

\* a SyntaxError the runtime throws
SyntaxError(message) == [t |-> "Error", name |-> "SyntaxError", message |-> message]

\* !text.trim(): the text is empty or holds white space only
IsBlank(decoded) == decoded.length = 0 \/ decoded.v = <<"blank">>

\* JSON.parse(text): the value parsed from a text that holds JSON, a
\* SyntaxError for any other text
JSONParse(decoded) ==
    IF decoded.v = <<"json">>
    THEN Return([t |-> "object", parsedFrom |-> decoded.v, length |-> decoded.length])
    ELSE Throw(SyntaxError(Text("Unexpected token in JSON at position 0")))

\* the chunks of the modelled messages in which 'JSON' occurs
ChunksWithJSON ==
    {"Unexpected token in JSON at position 0", "Invalid JSON format: ",
     "Failed to parse request body as JSON: "}

\* message.includes('JSON')
IncludesJSON(message) == \E i \in DOMAIN message.v : message.v[i] \in ChunksWithJSON

\* the catch of json(): every failure of text() and of the try block has a
\* message
JsonCatch(error) ==
    IF IncludesJSON(error.message)
    THEN Error(Concat("Invalid JSON format: ", error.message))
    ELSE Error(Concat("Failed to parse request body as JSON: ", error.message))

\* json() without its test for a blank text
JsonResumedUnchecked(settled) ==
    IF settled.kind = "throw" THEN Throw(JsonCatch(settled.value))
    ELSE IF JSONParse(settled.value).kind = "throw"
    THEN Throw(JsonCatch(JSONParse(settled.value).value))
    ELSE JSONParse(settled.value)

\* json() resumed with the outcome of the text() it awaited
JsonResumed(settled) ==
    IF settled.kind = "throw" THEN Throw(JsonCatch(settled.value))
    ELSE IF IsBlank(settled.value)
    THEN Throw(JsonCatch(Error(Text("Empty request body"))))
    ELSE IF JSONParse(settled.value).kind = "throw"
    THEN Throw(JsonCatch(JSONParse(settled.value).value))
    ELSE JSONParse(settled.value)

BodyLengths ==
    (1..MaxExcess) \cup ((MaxBodyLength - MaxExcess)..(MaxBodyLength + MaxExcess))

BodyTexts ==
    {BodyText(holds, n) : holds \in {"json", "blank", "malformed", "plain"},
                          n \in BodyLengths}
    \cup {BodyText("blank", 0)}

RawFailures == Failures \cup {TypeError(Text("Body has already been used"))}

RawBodies ==
    {[kind |-> "text", text |-> b] : b \in BodyTexts}
    \cup {[kind |-> "fail", error |-> f] : f \in RawFailures}

(***************************************************************************)
(* The query of a request.  The search string of the URL is a sequence of  *)
(* tokens: "&" and "=" are the two separators, every other token is a run  *)
(* of characters that holds neither a separator nor anything to decode.    *)
(***************************************************************************)
SearchTokens == {"a", "__proto__", "1", "2", "=", "&"}

RECURSIVE TokensUpTo(_)
TokensUpTo(n) ==
    IF n = 0 THEN {<<>>}
    ELSE TokensUpTo(n - 1)
         \cup {Append(s, t) : s \in {x \in TokensUpTo(n - 1) : Len(x) = n - 1},
                              t \in SearchTokens}

SearchStrings == TokensUpTo(MaxSearchLength)

\* the first position of separator sep in s, Len(s) + 1 when there is none
RECURSIVE IndexOf(_, _, _)
IndexOf(s, sep, from) ==
    IF from > Len(s) THEN Len(s) + 1
    ELSE IF s[from] = sep THEN from
    ELSE IndexOf(s, sep, from + 1)

\* url.searchParams: the search string is cut at every "&", an empty piece
\* is skipped, and a piece is cut at its first "=" into a name and a value,
\* the value being empty when the piece has no "="
RECURSIVE SearchParams(_)
SearchParams(s) ==
    IF s = <<>> THEN <<>>
    ELSE LET end == IndexOf(s, "&", 1)
             piece == SubSeq(s, 1, end - 1)
             eq == IndexOf(piece, "=", 1)
             rest == SearchParams(SubSeq(s, end + 1, Len(s)))
         IN  IF piece = <<>> THEN rest
             ELSE <<[key |-> SubSeq(piece, 1, eq - 1),
                     value |-> SubSeq(piece, eq + 1, Len(piece))]>> \o rest

\* object[key] = value on an object literal: the assignment of a string to
\* __proto__ runs the setter of Object.prototype, which ignores a value that
\* is neither an object nor null, and creates no own property
SetProperty(object, key, value) ==
    IF key = <<"__proto__">> THEN object
    ELSE (key :> value) @@ object

\* this.query = {}; this.url.searchParams.forEach((value, key) => {
\*     this.query[key] = value })
RECURSIVE QueryFrom(_, _)
QueryFrom(object, params) ==
    IF params = <<>> THEN object
    ELSE QueryFrom(SetProperty(object, params[1].key, params[1].value), Tail(params))

QueryInit ==
    /\ search \in SearchStrings
    /\ query = NotRun

\* the query the constructor of RouterRequest builds
ParseQuery ==
    /\ query = NotRun
    /\ query' = Object(QueryFrom(<<>>, SearchParams(search)))
    /\ UNCHANGED search

NotReading == [pc |-> "idle", outcome |-> Pending]

RequestIdle ==
    /\ raw = [kind |-> "text", text |-> BodyText("blank", 0)]
    /\ read = NotReading
    /\ parse = NotReading
    /\ search = <<>>
    /\ query = NotRun

RequestInit ==
    /\ raw \in RawBodies
    /\ read = NotReading
    /\ parse = NotReading
    /\ search = <<>>
    /\ query = NotRun

\* req.text() up to its await
req_text ==
    /\ read.pc = "idle"
    /\ read' = [read EXCEPT !.pc = "reading"]
    /\ UNCHANGED <<raw, parse>>

RawResolves ==
    /\ read.pc = "reading"
    /\ raw.kind = "text"
    /\ read' = [pc |-> "done", outcome |-> TextResolved(raw.text)]
    /\ UNCHANGED <<raw, parse>>

RawRejects ==
    /\ read.pc = "reading"
    /\ raw.kind = "fail"
    /\ read' = [pc |-> "done", outcome |-> TextRejected(raw.error)]
    /\ UNCHANGED <<raw, parse>>

\* req.json() up to its await: it calls text(), which runs up to its own
\* await
req_json ==
    /\ parse.pc = "idle"
    /\ read.pc = "idle"
    /\ parse' = [parse EXCEPT !.pc = "awaiting"]
    /\ read' = [read EXCEPT !.pc = "reading"]
    /\ UNCHANGED raw

\* json() resumed when the text() it awaits has settled
TextSettles ==
    /\ parse.pc = "awaiting"
    /\ read.pc = "done"
    /\ parse' = [pc |-> "done", outcome |-> JsonResumed(read.outcome)]
    /\ UNCHANGED <<raw, read>>

(***************************************************************************)
(* The operations.  Routes and middleware are registered while no fetch    *)
(* is in flight (the tables are populated before requests are served).     *)
(* thrown is the exception a registration raised to its caller, who has    *)
(* to catch it before the program goes on.                                 *)
(***************************************************************************)
CallsInit ==
    /\ thrown = NoError
    /\ calls = [c \in {1} |-> IdleCall]

NoCallInFlight == \A c \in DOMAIN calls : calls[c].pc = "idle"

Running == thrown = NoError

Use(middleware) ==
    /\ Running /\ NoCallInFlight
    /\ UseError(middleware) = NoError => Len(middlewares) < MaxMiddlewares
    /\ thrown' = UseError(middleware)
    /\ middlewares' = IF UseError(middleware) = NoError
                      THEN Append(middlewares, middleware)
                      ELSE middlewares
    /\ UNCHANGED <<routes, calls>>

use == \E middleware \in MiddlewareArguments : Use(middleware)

\* the route is pushed before the arguments are validated
AddRouteEager(method, url, callback) ==
    /\ Running /\ NoCallInFlight
    /\ Len(routes) < MaxRoutes
    /\ thrown' = AddRouteError(method, url, callback)
    /\ routes' = PushRoute(method, url, callback)
    /\ UNCHANGED <<middlewares, calls>>

\* _addRoute(method, url, callback): the route is pushed when no validation
\* has thrown
AddRoute(method, url, callback) ==
    /\ Running /\ NoCallInFlight
    /\ AddRouteError(method, url, callback) = NoError => Len(routes) < MaxRoutes
    /\ thrown' = AddRouteError(method, url, callback)
    /\ routes' = IF AddRouteError(method, url, callback) = NoError
                 THEN PushRoute(method, url, callback)
                 ELSE routes
    /\ UNCHANGED <<middlewares, calls>>

get == \E url \in UrlArguments, callback \in CallbackArguments : AddRoute("GET", url, callback)

post == \E url \in UrlArguments, callback \in CallbackArguments : AddRoute("POST", url, callback)

put == \E url \in LiteralUrlArguments, callback \in CallbackArguments : AddRoute("PUT", url, callback)

delete == \E url \in LiteralUrlArguments, callback \in CallbackArguments : AddRoute("DELETE", url, callback)

patch == \E url \in LiteralUrlArguments, callback \in CallbackArguments : AddRoute("PATCH", url, callback)

options == \E url \in LiteralUrlArguments, callback \in CallbackArguments : AddRoute("OPTIONS", url, callback)

fetch ==
    \E c \in DOMAIN calls, request \in Requests :
      \E sync \in IF WellFormed(request) THEN SyncOutcomes ELSE {Pending} :
        /\ Running
        /\ calls[c].pc = "idle"
        /\ calls' = [calls EXCEPT ![c] = FetchBegin(request, sync)]
        /\ UNCHANGED <<routes, middlewares, thrown>>

MiddlewareResolves ==
    \E c \in DOMAIN calls :
        /\ calls[c].pc = "middleware"
        /\ \E value \in MiddlewareValues(calls[c]) :
             \E sync \in IF InstanceOfResponse(value) THEN {Pending} ELSE SyncOutcomes :
               calls' = [calls EXCEPT ![c] = MiddlewareResolved(calls[c], value, sync)]
        /\ UNCHANGED <<routes, middlewares, thrown>>

MiddlewareRejects ==
    \E c \in DOMAIN calls, error \in Failures :
        /\ calls[c].pc = "middleware"
        /\ calls' = [calls EXCEPT ![c] = MiddlewareRejected(calls[c], error)]
        /\ UNCHANGED <<routes, middlewares, thrown>>

CallbackResolves ==
    \E c \in DOMAIN calls :
        /\ calls[c].pc = "handler"
        /\ \E value \in CallbackValues(calls[c]) :
               calls' = [calls EXCEPT ![c] = CallbackResolved(calls[c], value)]
        /\ UNCHANGED <<routes, middlewares, thrown>>

CallbackRejects ==
    \E c \in DOMAIN calls, error \in Failures :
        /\ calls[c].pc = "handler"
        /\ calls' = [calls EXCEPT ![c] = CallbackRejected(calls[c], error)]
        /\ UNCHANGED <<routes, middlewares, thrown>>

\* the caller has taken the settled promise's value
Respond ==
    \E c \in DOMAIN calls :
        /\ calls[c].pc = "done"
        /\ calls' = [calls EXCEPT ![c] = IdleCall]
        /\ UNCHANGED <<routes, middlewares, thrown>>

\* the caller's catch of a registration error
Catch ==
    /\ thrown # NoError
    /\ thrown' = NoError
    /\ UNCHANGED <<routes, middlewares, calls>>

MatchIdle ==
    /\ mPattern = <<>>
    /\ mPathname = <<>>
    /\ mMatch = NotRun

Init == RouterInit /\ CallsInit /\ MatchIdle /\ BuilderInit /\ RequestIdle

Next ==
    \/ use /\ UNCHANGED <<matchVars, builderVars, requestVars>>
    \/ get /\ UNCHANGED <<matchVars, builderVars, requestVars>>
    \/ post /\ UNCHANGED <<matchVars, builderVars, requestVars>>
    \/ put /\ UNCHANGED <<matchVars, builderVars, requestVars>>
    \/ delete /\ UNCHANGED <<matchVars, builderVars, requestVars>>
    \/ patch /\ UNCHANGED <<matchVars, builderVars, requestVars>>
    \/ options /\ UNCHANGED <<matchVars, builderVars, requestVars>>
    \/ fetch /\ UNCHANGED <<matchVars, builderVars, requestVars>>
    \/ MiddlewareResolves /\ UNCHANGED <<matchVars, builderVars, requestVars>>
    \/ MiddlewareRejects /\ UNCHANGED <<matchVars, builderVars, requestVars>>
    \/ CallbackResolves /\ UNCHANGED <<matchVars, builderVars, requestVars>>
    \/ CallbackRejects /\ UNCHANGED <<matchVars, builderVars, requestVars>>
    \/ Respond /\ UNCHANGED <<matchVars, builderVars, requestVars>>
    \/ Catch /\ UNCHANGED <<matchVars, builderVars, requestVars>>

Spec == Init /\ [][Next]_vars

MatchNext == ApplyMatchRoute /\ UNCHANGED <<routerVars, builderVars, requestVars>>

InitMatch == RouterInit /\ CallsInit /\ MatchInit /\ BuilderInit /\ RequestIdle

SpecMatch == InitMatch /\ [][MatchNext]_vars

(***************************************************************************)
(* Concurrent calls of fetch on a router whose tables are populated: each  *)
(* call runs from await to await, and the steps of the calls in flight     *)
(* interleave.  The middleware and the handler write to the builder fetch  *)
(* passed them before they complete.                                       *)
(***************************************************************************)
ServedRoutes ==
    <<[url |-> Str(<<"/", ":", "a">>), callback |-> Fn("h1"), method |-> "GET"]>>

ServedMiddlewares == <<Fn("m1")>>

ServingInit ==
    /\ routes = ServedRoutes
    /\ middlewares = ServedMiddlewares
    /\ thrown = NoError
    /\ calls = [c \in 1..MaxInFlight |-> IdleCall]

WrittenStatuses == {Num(201), Num(404)}

Wrote(who, i, status) == [who |-> who, i |-> i, ev |-> "write", value |-> status]

\* res.writeHead(status) called by the middleware or the handler of call c
\* on the builder every call in flight would share if fetch kept one builder
BuilderWriteShared(c, status) ==
    [d \in DOMAIN calls |->
        IF d = c
        THEN Logged([calls[c] EXCEPT !.res = WriteHead(@, status, Undefined, Undefined)],
                    Wrote(calls[c].log[Len(calls[c].log)].who, calls[c].i, status))
        ELSE IF calls[d].pc \in {"middleware", "handler"}
        THEN [calls[d] EXCEPT !.res = WriteHead(@, status, Undefined, Undefined)]
        ELSE calls[d]]

\* res.writeHead(status) called by the middleware or the handler of call c
\* on the res that call's fetch created and passed to it
BuilderWrite(c, status) ==
    [calls EXCEPT ![c] =
        Logged([calls[c] EXCEPT !.res = WriteHead(@, status, Undefined, Undefined)],
               Wrote(calls[c].log[Len(calls[c].log)].who, calls[c].i, status))]

\* the middleware or the handler that was just called writes the status
CalleeWrites ==
    \E c \in DOMAIN calls, status \in WrittenStatuses :
        /\ calls[c].pc \in {"middleware", "handler"}
        /\ calls[c].log[Len(calls[c].log)].ev = "call"
        /\ calls' = BuilderWrite(c, status)
        /\ UNCHANGED <<routes, middlewares, thrown>>

ServingNext ==
    \/ fetch /\ UNCHANGED <<matchVars, builderVars, requestVars>>
    \/ CalleeWrites /\ UNCHANGED <<matchVars, builderVars, requestVars>>
    \/ MiddlewareResolves /\ UNCHANGED <<matchVars, builderVars, requestVars>>
    \/ MiddlewareRejects /\ UNCHANGED <<matchVars, builderVars, requestVars>>
    \/ CallbackResolves /\ UNCHANGED <<matchVars, builderVars, requestVars>>
    \/ CallbackRejects /\ UNCHANGED <<matchVars, builderVars, requestVars>>
    \/ Respond /\ UNCHANGED <<matchVars, builderVars, requestVars>>

InitServing == ServingInit /\ MatchIdle /\ BuilderInit /\ RequestIdle

SpecServing == InitServing /\ [][ServingNext]_vars

BuilderNext ==
    \/ cors /\ UNCHANGED <<routerVars, matchVars, requestVars>>
    \/ writeHead /\ UNCHANGED <<routerVars, matchVars, requestVars>>
    \/ json /\ UNCHANGED <<routerVars, matchVars, requestVars>>
    \/ text /\ UNCHANGED <<routerVars, matchVars, requestVars>>
    \/ html /\ UNCHANGED <<routerVars, matchVars, requestVars>>

InitBuilder == RouterInit /\ CallsInit /\ MatchIdle /\ BuilderInit /\ RequestIdle

SpecBuilder == InitBuilder /\ [][BuilderNext]_vars

RequestNext ==
    \/ req_json /\ UNCHANGED <<routerVars, matchVars, builderVars, search, query>>
    \/ TextSettles /\ UNCHANGED <<routerVars, matchVars, builderVars, search, query>>
    \/ req_text /\ UNCHANGED <<routerVars, matchVars, builderVars, search, query>>
    \/ RawResolves /\ UNCHANGED <<routerVars, matchVars, builderVars, search, query>>
    \/ RawRejects /\ UNCHANGED <<routerVars, matchVars, builderVars, search, query>>

InitRequest == RouterInit /\ CallsInit /\ MatchIdle /\ BuilderInit /\ RequestInit

SpecRequest == InitRequest /\ [][RequestNext]_vars

QueryNext ==
    ParseQuery /\ UNCHANGED <<routerVars, matchVars, builderVars, raw, read, parse>>

InitQuery ==
    /\ RouterInit /\ CallsInit /\ MatchIdle /\ BuilderInit
    /\ raw = [kind |-> "text", text |-> BodyText("blank", 0)]
    /\ read = NotReading
    /\ parse = NotReading
    /\ QueryInit

SpecQuery == InitQuery /\ [][QueryNext]_vars

(***************************************************************************)
(* One call of fetch on a router with two middlewares and a route, whose   *)
(* middlewares and handler write to the req and the res they are given:    *)
(* res.writeHead(status, undefined, headers) and req.user = user.          *)
(***************************************************************************)
PipelineMiddlewares == <<Fn("m1"), Fn("m2")>>

PipelineInit ==
    /\ routes = ServedRoutes
    /\ middlewares = PipelineMiddlewares
    /\ thrown = NoError
    /\ calls = [c \in {1} |-> IdleCall]

WrittenHeaders == {Undefined, Object("X-Trace" :> "on")}

WrittenUsers == {Text("alice"), Text("bob")}

Writes ==
    [status : WrittenStatuses, headers : WrittenHeaders, user : WrittenUsers]

SetBy(who, i, write) == [who |-> who, i |-> i, ev |-> "set", value |-> write]

\* res.writeHead(write.status, undefined, write.headers) and
\* req.user = write.user, on the req and res the callee was given
CalleeSet(call, write) ==
    Logged([call EXCEPT !.res = WriteHead(@, write.status, Undefined, write.headers),
                        !.req = ("user" :> write.user) @@ @],
           SetBy(call.log[Len(call.log)].who, call.i, write))

\* the middleware or the handler that was just called writes to both
CalleeSets ==
    \E c \in DOMAIN calls, write \in Writes :
        /\ calls[c].pc \in {"middleware", "handler"}
        /\ calls[c].log[Len(calls[c].log)].ev = "call"
        /\ calls' = [calls EXCEPT ![c] = CalleeSet(calls[c], write)]
        /\ UNCHANGED <<routes, middlewares, thrown>>

PipelineNext ==
    \/ fetch /\ UNCHANGED <<matchVars, builderVars, requestVars>>
    \/ CalleeSets /\ UNCHANGED <<matchVars, builderVars, requestVars>>
    \/ MiddlewareResolves /\ UNCHANGED <<matchVars, builderVars, requestVars>>
    \/ MiddlewareRejects /\ UNCHANGED <<matchVars, builderVars, requestVars>>
    \/ CallbackResolves /\ UNCHANGED <<matchVars, builderVars, requestVars>>
    \/ CallbackRejects /\ UNCHANGED <<matchVars, builderVars, requestVars>>
    \/ Respond /\ UNCHANGED <<matchVars, builderVars, requestVars>>

InitPipeline == PipelineInit /\ MatchIdle /\ BuilderInit /\ RequestIdle

SpecPipeline == InitPipeline /\ [][PipelineNext]_vars

\* ---- claims ----

(***************************************************************************)
(* Reading a call's history.                                               *)
(***************************************************************************)
CallIds == DOMAIN calls

Events(c, who, ev) ==
    {p \in DOMAIN calls[c].log : calls[c].log[p].who = who /\ calls[c].log[p].ev = ev}

LastEvent(c) == calls[c].log[Len(calls[c].log)]

\* every registered middleware has completed without a response or a failure
AllPassed(c) ==
    \A k \in 1..Len(middlewares) :
        \E p \in DOMAIN calls[c].log : calls[c].log[p] = Passed("middleware", k)

\* the routes that have the request's method and whose pattern the matcher
\* matches against the request's path
Eligible(c) ==
    {r \in DOMAIN routes :
        /\ WellFormed(calls[c].request)
        /\ routes[r].method = calls[c].request.method
        /\ MatchRoute(routes[r].url.v, calls[c].pathname) # JsNull}

\* the document of a structured error response
Body(response) == response.body.json

\* C1: whatever the raw request and whatever the middleware and handlers do,
\* a call of fetch that has settled has returned a value; it never throws.
C1_FetchNeverThrows ==
    \A c \in CallIds :
        /\ calls[c].outcome.kind # "throw"
        /\ calls[c].pc = "done" <=> calls[c].outcome.kind = "return"

\* a middleware threw null, which the inner catch cannot read, and fetch
\* still returned
C1_Witness ==
    \E c \in CallIds :
        /\ calls[c].pc = "done"
        /\ Len(calls[c].log) > 0
        /\ LastEvent(c) = Threw("middleware", 1, JsNull)
        /\ calls[c].outcome.kind = "return"

\* C2: once a middleware has returned a response, nothing registered after it
\* runs and no handler runs, and fetch returns exactly that response.
C2_ShortCircuit ==
    \A c \in CallIds :
        \A p \in Events(c, "middleware", "return") :
            /\ p = Len(calls[c].log)
            /\ Events(c, "handler", "call") = {}
            /\ \A q \in Events(c, "middleware", "call") :
                   calls[c].log[q].i <= calls[c].log[p].i
            /\ calls[c].pc = "done"
            /\ calls[c].outcome = Return(calls[c].log[p].value)

\* the first of two middleware returned a response while a route matched
C2_Witness ==
    \E c \in CallIds :
        /\ Len(middlewares) = 2
        /\ Eligible(c) # {}
        /\ Len(calls[c].log) = 2
        /\ LastEvent(c).ev = "return"
        /\ InstanceOfResponse(calls[c].outcome.value)
        /\ calls[c].outcome.value.status = 401

\* C3: middleware run one at a time in registration order, each started only
\* when the one before it has completed without a response, and the handler
\* starts only when every registered middleware has so completed.
C3_Sequential ==
    \A c \in CallIds :
        /\ \A p \in Events(c, "middleware", "call") :
               LET i == calls[c].log[p].i
               IN /\ i \in 1..Len(middlewares)
                  /\ calls[c].log[p].fn = middlewares[i]
                  /\ IF i = 1 THEN p = 1
                     ELSE p > 1 /\ calls[c].log[p - 1] = Passed("middleware", i - 1)
                  /\ \A q \in Events(c, "middleware", "call") :
                         calls[c].log[q].i = i => q = p
        /\ \A p \in Events(c, "handler", "call") :
               \A k \in 1..Len(middlewares) :
                   \E q \in 1..(p - 1) : calls[c].log[q] = Passed("middleware", k)
        /\ calls[c].pc = "middleware" =>
               /\ LastEvent(c).ev = "call"
               /\ LastEvent(c).i = calls[c].i

\* two middleware completed, then the handler was called
C3_Witness ==
    \E c \in CallIds :
        /\ Len(middlewares) = 2
        /\ calls[c].pc = "handler"
        /\ Len(calls[c].log) = 5
        /\ calls[c].log[2] = Passed("middleware", 1)
        /\ calls[c].log[4] = Passed("middleware", 2)

\* C4: when no middleware short-circuits or fails, fetch calls the handler
\* of the earliest-registered route that has the request's method and whose
\* pattern the matcher matches against the path, and no other handler.
C4_FirstMatchWins ==
    \A c \in CallIds :
        /\ Cardinality(Events(c, "handler", "call")) <= 1
        /\ \A p \in Events(c, "handler", "call") :
               /\ calls[c].log[p].i \in Eligible(c)
               /\ \A r \in Eligible(c) : calls[c].log[p].i <= r
               /\ calls[c].log[p].fn = routes[calls[c].log[p].i].callback
        /\ (calls[c].pc # "idle" /\ WellFormed(calls[c].request)
               /\ AllPassed(c) /\ Eligible(c) # {})
               => Events(c, "handler", "call") # {}

\* the path matches the first route under another method and the second
\* route under the request's method: the second route's handler is called
C4_Witness ==
    \E c \in CallIds :
        /\ Len(routes) = 2
        /\ calls[c].pc = "handler"
        /\ calls[c].i = 2
        /\ MatchRoute(routes[1].url.v, calls[c].pathname) # JsNull
        /\ routes[1].method # calls[c].request.method

\* both routes have the request's method and match: the first one is called
C4_WitnessLater ==
    \E c \in CallIds :
        /\ Len(routes) = 2
        /\ calls[c].pc = "handler"
        /\ calls[c].i = 1
        /\ Eligible(c) = {1, 2}

Methods == {"GET", "POST", "PUT", "DELETE", "PATCH", "OPTIONS"}

NoDuplicateRoutes(table) ==
    \A i, j \in DOMAIN table :
        (table[i].method = table[j].method /\ table[i].url = table[j].url) => i = j

Registered(method, url) ==
    \E i \in DOMAIN routes : routes[i].method = method /\ routes[i].url = url

RouteExists(method, url) ==
    Error(Str(<<"Route already exists for ", method, " ">> \o url.v \o <<".">>))

\* C5: the route table never holds two routes with the same method and
\* pattern: registering a pair that is in the table throws 'Route already
\* exists' and leaves the table alone, registering a pair that is not in the
\* table (the pattern may be there under another method) appends it.
C5_UniqueRoutes ==
    [][/\ NoDuplicateRoutes(routes')
       /\ \A m \in Methods, u \in RoutePatterns :
              AddRoute(m, Str(u), Fn("h1")) =>
                  IF Registered(m, Str(u))
                  THEN thrown' = RouteExists(m, Str(u)) /\ routes' = routes
                  ELSE /\ thrown' = NoError
                       /\ routes' = Append(routes, [url |-> Str(u),
                                                    callback |-> Fn("h1"),
                                                    method |-> m])]_vars

\* one pattern is registered under two methods and a third registration of
\* the first pair has just failed
C5_Witness ==
    /\ Len(routes) = 2
    /\ routes[1].url = routes[2].url
    /\ routes[1].method # routes[2].method
    /\ thrown = RouteExists(routes[1].method, routes[1].url)

\* C6: when the matched handler raises an Error, fetch returns a 500 response
\* whose body holds error, status 500 and the Error's message, whatever the
\* message is.
C6_HandlerFailureMessage ==
    \A c \in CallIds :
        (/\ calls[c].pc = "done"
         /\ Len(calls[c].log) > 0
         /\ LastEvent(c).who = "handler"
         /\ LastEvent(c).ev = "throw"
         /\ LastEvent(c).value.t = "Error")
        => /\ calls[c].outcome.kind = "return"
           /\ InstanceOfResponse(calls[c].outcome.value)
           /\ calls[c].outcome.value.status = 500
           /\ DOMAIN Body(calls[c].outcome.value) = {"error", "status", "message"}
           /\ Body(calls[c].outcome.value).status = 500
           /\ Body(calls[c].outcome.value).message = LastEvent(c).value.message

\* C7: when a middleware raises a failure, nothing runs after it, it is not
\* called again, and fetch returns a 500 structured error that carries the
\* failure's message.
C7_MiddlewareFailureStops ==
    \A c \in CallIds :
        \A p \in Events(c, "middleware", "throw") :
            /\ p = Len(calls[c].log)
            /\ Events(c, "handler", "call") = {}
            /\ Cardinality({q \in Events(c, "middleware", "call") :
                               calls[c].log[q].i = calls[c].log[p].i}) = 1
            /\ calls[c].pc = "done"
            /\ calls[c].outcome.kind = "return"
            /\ InstanceOfResponse(calls[c].outcome.value)
            /\ calls[c].outcome.value.status = 500
            /\ Body(calls[c].outcome.value).status = 500
            /\ calls[c].log[p].value.t = "Error" =>
                   /\ "message" \in DOMAIN Body(calls[c].outcome.value)
                   /\ Body(calls[c].outcome.value).message = calls[c].log[p].value.message

\* C8: when no middleware short-circuits or fails and no route has both the
\* request's method and a pattern matching its path, fetch returns a 404
\* structured error that names the method and the path, and calls no handler.
C8_NotFound ==
    \A c \in CallIds :
        (/\ calls[c].pc # "idle"
         /\ WellFormed(calls[c].request)
         /\ AllPassed(c)
         /\ Eligible(c) = {})
        => /\ calls[c].pc = "done"
           /\ Events(c, "handler", "call") = {}
           /\ calls[c].outcome.kind = "return"
           /\ InstanceOfResponse(calls[c].outcome.value)
           /\ calls[c].outcome.value.status = 404
           /\ Body(calls[c].outcome.value).status = 404
           /\ Body(calls[c].outcome.value).error = "Not Found"
           /\ Body(calls[c].outcome.value).message =
                  Str(<<"Route ", calls[c].request.method, " ">>
                      \o URLPathname(calls[c].request.url) \o <<" not found">>)

\* a middleware completed, the path matches a route of another method only,
\* and fetch answered 404
C8_Witness ==
    \E c \in CallIds :
        /\ calls[c].pc = "done"
        /\ Len(middlewares) > 0
        /\ AllPassed(c)
        /\ Eligible(c) = {}
        /\ \E r \in DOMAIN routes : MatchRoute(routes[r].url.v, calls[c].pathname) # JsNull
        /\ calls[c].outcome.value.status = 404

\* C9: what fetch returns is always a transport response, whatever the
\* matched handler returns.
C9_AlwaysAResponse ==
    \A c \in CallIds :
        calls[c].pc = "done" =>
            /\ calls[c].outcome.kind = "return"
            /\ InstanceOfResponse(calls[c].outcome.value)

(***************************************************************************)
(* The pattern language as the documentation describes it: a pattern is a  *)
(* list of segments separated by "/", a segment that begins with ":" and   *)
(* has a name after it is a named segment, any other segment is literal.   *)
(***************************************************************************)
RECURSIVE Split(_)
Split(s) ==
    IF RunEnd(s, 1) = Len(s) THEN <<s>>
    ELSE <<SubSeq(s, 1, RunEnd(s, 1))>> \o Split(SubSeq(s, RunEnd(s, 1) + 2, Len(s)))

IsNamed(seg) == Len(seg) >= 2 /\ seg[1] = ":"

NamedPositions(pattern) == {i \in DOMAIN Split(pattern) : IsNamed(Split(pattern)[i])}

DistinctNames(pattern) ==
    \A i, j \in NamedPositions(pattern) :
        Split(pattern)[i] = Split(pattern)[j] => i = j

SegmentwiseMatch(pattern, pathname) ==
    LET ps == Split(pattern)
        qs == Split(pathname)
    IN /\ Len(ps) = Len(qs)
       /\ \A i \in DOMAIN ps :
              IF IsNamed(ps[i]) THEN Len(qs[i]) > 0 ELSE ps[i] = qs[i]

SegmentwiseParams(pattern, pathname) ==
    LET ps == Split(pattern)
        qs == Split(pathname)
    IN [n \in {Tail(ps[i]) : i \in NamedPositions(pattern)} |->
           qs[CHOOSE i \in NamedPositions(pattern) : Tail(ps[i]) = n]]

\* C10: for every pattern and path the matcher returns a match iff the path
\* has as many segments as the pattern, equals it on every literal segment
\* and has a non-empty segment at each named position; on a match (names
\* distinct) params maps each declared name to the path segment at its
\* position.
C10_MatchIffSegmentwise ==
    mMatch # NotRun =>
        /\ (mMatch.t = "object") <=> SegmentwiseMatch(mPattern, mPathname)
        /\ (mMatch.t = "object" /\ DistinctNames(mPattern)) =>
               mMatch.params = SegmentwiseParams(mPattern, mPathname)

Range(s) == {s[i] : i \in DOMAIN s}

\* the match object of a pattern without parameters
EmptyMatch == [t |-> "object", params |-> <<>>]

\* C11: a pattern that holds no ":" is matched character for character: the
\* matcher returns a match with empty params for the identical path and no
\* match for every other path, whatever characters the pattern holds.
C11_LiteralPattern ==
    (mMatch # NotRun /\ ":" \notin Range(mPattern)) =>
        IF mPathname = mPattern THEN mMatch = EmptyMatch ELSE mMatch = JsNull

\* an argument that was not given: null or undefined
Absent(x) == x.t \in {"null", "undefined"}

\* the failure the documentation gives for a registration's arguments, none
\* when it documents no failure for them
DocumentedAddRouteError(url, callback) ==
    IF Absent(url) \/ Absent(callback)
    THEN Error(Text("URL or Callback is not provided."))
    ELSE IF TypeOf(url) # "string"
    THEN Error(Text("URL must be of type string."))
    ELSE IF TypeOf(callback) # "function"
    THEN Error(Text("Callback must be of type function."))
    ELSE NoError

\* C12: a registration whose pattern or handler is absent throws 'URL or
\* Callback is not provided', one whose supplied pattern is not a string
\* throws 'URL must be of type string', one whose supplied handler is not a
\* function throws 'Callback must be of type function', and use of something
\* that is not a function throws 'Middleware must be a function'; the error
\* reaches the caller in the same step and nothing is registered.
C12_RegistrationValidation ==
    [][/\ \A m \in Methods, u \in UrlArguments, cb \in CallbackArguments :
              (AddRoute(m, u, cb) /\ DocumentedAddRouteError(u, cb) # NoError) =>
                  /\ thrown' = DocumentedAddRouteError(u, cb)
                  /\ routes' = routes
       /\ \A mw \in MiddlewareArguments :
              (Use(mw) /\ TypeOf(mw) # "function") =>
                  /\ thrown' = Error(Text("Middleware must be a function."))
                  /\ middlewares' = middlewares]_vars

\* the raw request is absent or its url is not a string
InvalidRequest(request) == ~Truthy(request) \/ TypeOf(request.url) # "string"

\* C13: a call of fetch whose raw request is absent or whose url is not a
\* string has returned a 400 structured error 'Invalid request object' and
\* has called no middleware and no handler.
C13_InvalidRequest ==
    \A c \in CallIds :
        (calls[c].pc # "idle" /\ InvalidRequest(calls[c].request)) =>
            /\ calls[c].pc = "done"
            /\ calls[c].log = <<>>
            /\ calls[c].outcome.kind = "return"
            /\ InstanceOfResponse(calls[c].outcome.value)
            /\ calls[c].outcome.value.status = 400
            /\ calls[c].outcome.value.statusText = "Invalid request object"
            /\ Body(calls[c].outcome.value).error = "Invalid request object"
            /\ Body(calls[c].outcome.value).status = 400

\* a middleware and a route are registered and fetch was given a request
\* whose url is a number
C13_Witness ==
    \E c \in CallIds :
        /\ Len(middlewares) > 0
        /\ Len(routes) > 0
        /\ calls[c].pc = "done"
        /\ Truthy(calls[c].request)
        /\ TypeOf(calls[c].request.url) = "number"
        /\ calls[c].outcome.value.status = 400

\* a middleware and a route are registered and fetch was given no request
C13_WitnessAbsent ==
    \E c \in CallIds :
        /\ Len(middlewares) > 0
        /\ Len(routes) > 0
        /\ calls[c].pc = "done"
        /\ calls[c].request = JsNull
        /\ calls[c].outcome.value.status = 400

\* the calls that ended in a structured error: the request was refused, a
\* middleware or the handler failed, or no route was found
EndedInError(c) ==
    /\ calls[c].pc = "done"
    /\ \/ ~WellFormed(calls[c].request)
       \/ Len(calls[c].log) > 0 /\ LastEvent(c).ev = "throw"
       \/ AllPassed(c) /\ Events(c, "handler", "call") = {}

\* the detail fetch handed to the error builder on that path; passing
\* undefined is passing nothing
SuppliedDetail(c) ==
    IF InvalidRequest(calls[c].request) THEN JsNull
    ELSE IF ~URLParses(calls[c].request.url) THEN Text("Failed to process request")
    ELSE IF Len(calls[c].log) > 0 /\ LastEvent(c).ev = "throw"
    THEN IF HasMessage(LastEvent(c).value)
         THEN MessageOf(LastEvent(c).value)
         ELSE Text("Failed to process request")
    ELSE Str(<<"Route ", calls[c].request.method, " ">> \o calls[c].pathname
             \o <<" not found">>)

\* C14: every structured error response has a JSON body whose status is the
\* response's status and whose error is its status text, with a message
\* exactly when a non-null detail was supplied (then that detail), and the
\* headers Content-Type: application/json and Access-Control-Allow-Origin: *.
C14_ErrorResponseShape ==
    \A c \in CallIds :
        EndedInError(c) =>
            LET response == calls[c].outcome.value
                detail == SuppliedDetail(c)
            IN /\ InstanceOfResponse(response)
               /\ response.status \in {400, 404, 500}
               /\ Body(response).status = response.status
               /\ Body(response).error = response.statusText
               /\ ("message" \in DOMAIN Body(response)) <=> ~Absent(detail)
               /\ "message" \in DOMAIN Body(response) => Body(response).message = detail
               /\ DOMAIN Body(response) \subseteq {"error", "status", "message"}
               /\ response.headers["Content-Type"] = "application/json"
               /\ response.headers["Access-Control-Allow-Origin"] = "*"

\* what the request wrapper's params has to be once the handler of route r
\* has been called
ParamsOf(c, r) == Object(MatchRoute(routes[r].url.v, calls[c].pathname).params)

\* C15: the request wrapper's params is an empty map from its construction
\* on and while middleware runs; it holds the parameters captured from the
\* matched route from the moment the handler of a route with the request's
\* method and a matching pattern is called, and never otherwise.
C15_ParamsAfterMatch ==
    \A c \in CallIds :
        (calls[c].pc # "idle" /\ WellFormed(calls[c].request)) =>
            IF Events(c, "handler", "call") = {}
            THEN calls[c].req.params = Object(<<>>)
            ELSE \A p \in Events(c, "handler", "call") :
                     /\ calls[c].log[p].i \in Eligible(c)
                     /\ calls[c].req.params = ParamsOf(c, calls[c].log[p].i)

Credentials == "Access-Control-Allow-Credentials"

\* C16: every cors call sets the origin, methods and headers CORS headers to
\* the given option or its default and returns the builder; a call with
\* truthy credentials leaves Access-Control-Allow-Credentials at "true", the
\* header is never "false", and after a call that omits credentials the
\* header is absent, whatever cors calls came before.
C16_CorsCredentials ==
    [][\A opts \in CorsOptions :
           res_cors(opts) =>
               /\ result'.outcome = Return(This)
               /\ builder'.header["Access-Control-Allow-Origin"] =
                      Option(opts, "origin", "*")
               /\ builder'.header["Access-Control-Allow-Methods"] =
                      Option(opts, "methods", DefaultMethods)
               /\ builder'.header["Access-Control-Allow-Headers"] =
                      Option(opts, "headers", "*")
               /\ Truthy(Option(opts, "credentials", Bool(FALSE))) =>
                      /\ Credentials \in DOMAIN builder'.header
                      /\ builder'.header[Credentials] = "true"
               /\ Credentials \in DOMAIN builder'.header =>
                      builder'.header[Credentials] # "false"
               /\ "credentials" \notin DOMAIN opts =>
                      Credentials \notin DOMAIN builder'.header]_vars

\* an integer in [100, 599]
ValidStatus(status) ==
    status.t = "number" /\ IsInteger(status) /\ status.v >= 100 /\ status.v <= 599

\* a plain key-to-value map
IsPlainMap(x) == x.t = "object" /\ "class" \notin DOMAIN x

\* the arguments the documentation says writeHead refuses
Refused(status, statusText, headers) ==
    \/ ~ValidStatus(status)
    \/ ~Absent(statusText) /\ statusText.t # "string"
    \/ ~Absent(headers) /\ ~IsPlainMap(headers)

\* C17: writeHead throws and changes nothing unless status is an integer in
\* [100, 599], a supplied statusText is a string and supplied headers are a
\* plain key-to-value map; a call that succeeds returns nothing and only
\* sets the builder's status, status text and headers.
C17_WriteHeadValidation ==
    [][\A s \in StatusArguments, st \in StatusTextArguments, h \in HeadersArguments :
           res_writeHead(s, st, h) =>
               IF Refused(s, st, h)
               THEN /\ result'.outcome.kind = "throw"
                    /\ builder' = builder
               ELSE /\ result'.outcome = Return(Undefined)
                    /\ builder'.status = s
                    /\ builder'.statusText = (IF Absent(st) THEN "" ELSE IF st.v = <<>> THEN "" ELSE st.v[1])
                    /\ builder'.header = (IF Absent(h) THEN builder.header
                                          ELSE h.v @@ builder.header)]_vars

ContentTypeOf(op) ==
    CASE op = "json" -> "application/json"
      [] op = "text" -> "text/plain"
      [] op = "html" -> "text/html"

\* the last call on the builder materialized a response
Materialized ==
    /\ result # NotRun
    /\ result.op \in {"json", "text", "html"}
    /\ result.outcome.kind = "return"

\* the content of a status text, a string of at most one chunk
StatusTextOf(statusText) == IF statusText.v = <<>> THEN "" ELSE statusText.v[1]

\* C18: a response materialized by json, text or html has the builder's
\* current headers plus the materializer's Content-Type; it has status 200
\* and statusText "OK" when writeHead was never called, and status s and
\* statusText t when the last writeHead was writeHead(s, t) with a valid
\* status s and a status text t.
C18_MutateThenMaterialize ==
    Materialized =>
        LET response == result.outcome.value
        IN /\ response.headers =
                  ("Content-Type" :> ContentTypeOf(result.op)) @@ builder.header
           /\ written = NotRun =>
                  response.status = 200 /\ response.statusText = "OK"
           /\ (written # NotRun /\ ValidStatus(written.status)
                   /\ written.statusText.t = "string") =>
                  /\ response.status = written.status.v
                  /\ response.statusText = StatusTextOf(written.statusText)

\* the failure text() raises for a body it could not decode or parse
GenericTextFailure(error) ==
    /\ error.t = "Error"
    /\ Len(error.message.v) > 0
    /\ error.message.v[1] = "Failed to parse request body as text: "

\* the failure names the size limit
NamesSizeLimit(error) ==
    /\ error.t = "Error"
    /\ "Request body too large (max 1MB)" \in Range(error.message.v)

\* C20: text() returns the decoded body unchanged when its length is at most
\* 1048576 and fails when it is longer, and the failure for a longer body is
\* a size-limit error, not the failure raised for a body that could not be
\* decoded.
C20_TextSizeLimit ==
    (read.pc = "done" /\ raw.kind = "text") =>
        IF raw.text.length <= 1048576
        THEN read.outcome = Return(raw.text)
        ELSE /\ read.outcome.kind = "throw"
             /\ NamesSizeLimit(read.outcome.value)
             /\ ~GenericTextFailure(read.outcome.value)

\* the positions before p at which call c's middleware or handler wrote a
\* status
WritesBefore(c, p) ==
    {q \in 1..(p - 1) : calls[c].log[q].ev = "write"}

\* the builder of call c as its own writes up to position p leave it
OwnBuilder(c, p) ==
    IF WritesBefore(c, p) = {} THEN NewRouterResponse
    ELSE WriteHead(NewRouterResponse, calls[c].log[Max(WritesBefore(c, p))].value,
                   Undefined, Undefined)

\* the responses the middleware and the handler of call c materialized from
\* the builder they were given
MaterializedBy(c) ==
    {p \in DOMAIN calls[c].log :
        /\ calls[c].log[p].ev = "return"
        /\ InstanceOfResponse(calls[c].log[p].value)
        /\ "Server" \in DOMAIN calls[c].log[p].value.headers}

\* C19: while calls of fetch interleave, the route table and the middleware
\* list stay as they were registered, and every call's request wrapper and
\* response builder hold what that call itself put there: the builder has
\* the status the call's own middleware or handler wrote last, the responses
\* they materialized have the status they saw in it, and params is what that
\* call's own match captured.
C19_Isolation ==
    /\ routes = ServedRoutes
    /\ middlewares = ServedMiddlewares
    /\ \A c \in CallIds :
           (calls[c].pc # "idle" /\ WellFormed(calls[c].request)) =>
               /\ calls[c].res = OwnBuilder(c, Len(calls[c].log) + 1)
               /\ \A p \in MaterializedBy(c) :
                      /\ calls[c].log[p].value.status = OwnBuilder(c, p).status.v
                      /\ calls[c].log[p].value.headers =
                             ("Content-Type" :> "application/json")
                             @@ OwnBuilder(c, p).header
               /\ calls[c].req.method = calls[c].request.method
               /\ calls[c].req.params =
                      (IF Events(c, "handler", "call") = {} THEN Undefined
                       ELSE ParamsOf(c, 1))

\* two calls are suspended in their handlers at once, with different params
\* and different statuses written to their builders
C19_Witness ==
    \E c, d \in CallIds :
        /\ calls[c].pc = "handler"
        /\ calls[d].pc = "handler"
        /\ calls[c].req.params # calls[d].req.params
        /\ calls[c].res.status = Num(201)
        /\ calls[d].res.status = Num(404)

\* the failure's message is the chunks given
Says(outcome, chunks) ==
    /\ outcome.kind = "throw"
    /\ outcome.value.t = "Error"
    /\ outcome.value.message = Str(chunks)

C22_RegistrationAppends ==
    /\ routes = <<>> /\ middlewares = <<>>
    /\ [][(thrown = NoError /\ thrown' = NoError /\ calls' = calls) =>
          /\ \A m \in Methods, u \in UrlArguments, cb \in CallbackArguments :
                 AddRoute(m, u, cb) =>
                     /\ routes' = routes \o <<[url |-> u, callback |-> cb, method |-> m]>>
                     /\ middlewares' = middlewares
          /\ get => routes'[Len(routes')].method = "GET"
          /\ post => routes'[Len(routes')].method = "POST"
          /\ put => routes'[Len(routes')].method = "PUT"
          /\ delete => routes'[Len(routes')].method = "DELETE"
          /\ patch => routes'[Len(routes')].method = "PATCH"
          /\ options => routes'[Len(routes')].method = "OPTIONS"
          /\ \A mw \in MiddlewareArguments :
                 Use(mw) =>
                     /\ middlewares' = middlewares \o <<mw>>
                     /\ routes' = routes]_vars

\* two routes of different methods were registered one after the other, and
\* two middlewares
C22_Witness ==
    /\ thrown = NoError
    /\ Len(routes) = 2
    /\ routes[1].method = "POST"
    /\ routes[2].method = "OPTIONS"
    /\ Len(middlewares) = 2

\* the response the documentation's authentication middleware returned
Unauthorized(value) ==
    /\ InstanceOfResponse(value)
    /\ "json" \in DOMAIN value.body
    /\ Body(value) = [error |-> "Unauthorized"]

\* C23: when a middleware returns res.json({error: 'Unauthorized'}, 401),
\* the response has status 401, no handler runs and fetch returns that 401
\* response.
C23_JsonStatusArgument ==
    \A c \in CallIds :
        \A p \in Events(c, "middleware", "return") :
            Unauthorized(calls[c].log[p].value) =>
                /\ calls[c].log[p].value.status = 401
                /\ Events(c, "handler", "call") = {}
                /\ calls[c].pc = "done"
                /\ calls[c].outcome = Return(calls[c].log[p].value)
                /\ calls[c].outcome.value.status = 401

\* the positions of the parameters of the search string that have name k
Occurrences(k) ==
    {i \in DOMAIN SearchParams(search) : SearchParams(search)[i].key = k}

\* C24: the query built by the constructor has exactly the names that occur
\* in the search string as its own properties, and the value of each is the
\* value of the name's last occurrence.
C24_QueryLastWins ==
    query # NotRun =>
        /\ DOMAIN query.v = {SearchParams(search)[i].key : i \in DOMAIN SearchParams(search)}
        /\ \A k \in DOMAIN query.v :
               query.v[k] = SearchParams(search)[Max(Occurrences(k))].value

\* C25: a registration that throws, whatever the reason (an absent argument,
\* an argument of the wrong type, a method and pattern already registered),
\* leaves the route table and the middleware list as they were, and the
\* calls of fetch with them.
C25_FailedRegistrationNoChange ==
    [][(thrown = NoError /\ thrown' # NoError) =>
       /\ \A m \in Methods, u \in UrlArguments, cb \in CallbackArguments :
              AddRoute(m, u, cb) =>
                  /\ routes' = routes
                  /\ middlewares' = middlewares
                  /\ calls' = calls
       /\ \A mw \in MiddlewareArguments :
              Use(mw) =>
                  /\ routes' = routes
                  /\ middlewares' = middlewares
                  /\ calls' = calls]_vars

\* a registration has just failed on a router that holds a route and a
\* middleware
C25_Witness ==
    /\ thrown # NoError
    /\ Len(routes) = 1
    /\ Len(middlewares) = 1

\* C26: a writeHead that throws leaves the builder's status, status text and
\* headers as they were, whichever of its validations failed, and a response
\* materialized afterwards is built from those values.
C26_FailedWriteHeadNoChange ==
    /\ [][(/\ result'.op = "writeHead"
           /\ result'.outcome.kind = "throw"
           /\ writeHead)
          => /\ builder'.status = builder.status
             /\ builder'.statusText = builder.statusText
             /\ builder'.header = builder.header
             /\ written' = written]_vars
    /\ [](Materialized =>
              /\ result.outcome.value.status = StatusOr200(builder)
              /\ result.outcome.value.statusText = StatusTextOrOK(builder)
              /\ result.outcome.value.headers =
                     ("Content-Type" :> ContentTypeOf(result.op)) @@ builder.header)

\* a writeHead with a valid status has just thrown for its headers, on a
\* builder that an earlier writeHead gave a status, a status text and a
\* header
C26_Witness ==
    /\ result = Ended("writeHead", Throw(Error(Text("Headers must be an object"))))
    /\ builder.status = Num(599)
    /\ builder.statusText = "Created"
    /\ "X-Custom" \in DOMAIN builder.header

\* the last two calls of writeHead that succeeded were writeHead(s1, t1) with
\* a status text t1 and then writeHead(s2) with a valid status and no status
\* text
TextThenNoText ==
    /\ written # NotRun
    /\ written.previous # NotRun
    /\ written.previous.t = "string"
    /\ written.previous.v # <<>>
    /\ ValidStatus(written.status)
    /\ Absent(written.statusText)

\* C27: after writeHead(s1, t1) followed by writeHead(s2), the builder holds
\* no status text, and a response materialized from it has status s2 and
\* statusText "OK", not t1, for every valid s2.
C27_StatusTextDiscarded ==
    TextThenNoText =>
        /\ builder.status = written.status
        /\ builder.statusText = ""
        /\ Materialized =>
               /\ result.outcome.value.status = written.status.v
               /\ result.outcome.value.statusText = "OK"

\* a response with an error status was materialized after writeHead(s1,
\* 'Created') and writeHead(599)
C27_Witness ==
    /\ TextThenNoText
    /\ written.previous = Text("Created")
    /\ written.status = Num(599)
    /\ Materialized
    /\ result.outcome.value.status = 599
    /\ result.outcome.value.statusText = "OK"

\* the positions before p at which a middleware or the handler of call c
\* wrote to its req and res
SetsBefore(c, p) == {q \in 1..(p - 1) : calls[c].log[q].ev = "set"}

\* the last of them
LastSet(c, p) == calls[c].log[Max(SetsBefore(c, p))].value

\* the header a write before p added, if any
TraceBefore(c, p) ==
    IF \E q \in SetsBefore(c, p) : calls[c].log[q].value.headers # Undefined
    THEN "X-Trace" :> "on"
    ELSE <<>>

\* C28: in one call of fetch the middlewares and the handler are given one
\* req and one res: at every moment after a write, so while every later
\* middleware and the handler run, res has the status written last and
\* every header written so far, and req has the user written last; a
\* response a middleware or the handler materializes has the status and the
\* headers written before it.
C28_SharedWrapperAndBuilder ==
    \A c \in CallIds :
        /\ (calls[c].pc # "idle" /\ SetsBefore(c, Len(calls[c].log) + 1) # {}) =>
               /\ calls[c].res.status = LastSet(c, Len(calls[c].log) + 1).status
               /\ calls[c].res.header =
                      TraceBefore(c, Len(calls[c].log) + 1) @@ NewRouterResponse.header
               /\ calls[c].req.user = LastSet(c, Len(calls[c].log) + 1).user
               /\ calls[c].req.method = calls[c].request.method
        /\ \A p \in MaterializedBy(c) :
               /\ calls[c].log[p].value.status =
                      (IF SetsBefore(c, p) = {} THEN 200 ELSE LastSet(c, p).status.v)
               /\ calls[c].log[p].value.headers =
                      ("Content-Type" :> "application/json")
                      @@ TraceBefore(c, p) @@ NewRouterResponse.header

\* the first middleware wrote a status, a header and a user and completed,
\* the second wrote nothing, and the handler, which wrote nothing either,
\* returned a response with that status and that header
C28_Witness ==
    \E c \in CallIds :
        /\ calls[c].pc = "done"
        /\ SetsBefore(c, Len(calls[c].log) + 1) # {}
        /\ \A q \in SetsBefore(c, Len(calls[c].log) + 1) :
               calls[c].log[q].who = "middleware" /\ calls[c].log[q].i = 1
        /\ LastEvent(c).who = "handler"
        /\ LastEvent(c).ev = "return"
        /\ InstanceOfResponse(LastEvent(c).value)
        /\ LastEvent(c).value.status = 404
        /\ "X-Trace" \in DOMAIN LastEvent(c).value.headers
        /\ calls[c].req.user = Text("alice")

====
